---- MODULE Spec2Model ----
(***************************************************************************)
(* ChatProcessor (source/game/StarChatProcessor.cpp): the chat routing     *)
(* core.  One action per public operation; every action is the whole       *)
(* method, run to completion under the processor's recursive mutex.  The    *)
(* threads of the last part run the methods concurrently, one call of a    *)
(* method at a step, and take the mutex wherever the source has a locker.  *)
(* Strings are TLA+ strings, maps are functions whose DOMAIN is the key    *)
(* set, and an exception leaving a method is recorded in exc together      *)
(* with the state the method had reached when it was thrown.               *)
(***************************************************************************)
EXTENDS Integers, Sequences, FiniteSets, TLC

\* ------------------------------------------------------------------ bounds
MaxPending == 2

\* ------------------------------------------------------- program constants
ServerConnectionId == 0

ServerNick == "server"

\* The connection ids the callers use.
ClientIds == {1, 2}

\* The threads that call the processor.
ThreadIds == {1, 2}

\* m_mutex: the owner (0: none) and the depth of the recursive mutex;
\* threads: what every thread is calling and how far it has come.
VARIABLES m_clients, m_nicks, m_channels, m_commandHandler, op, ret, exc, calls,
          m_mutex, threads

vars == <<m_clients, m_nicks, m_channels, m_commandHandler, op, ret, exc, calls,
          m_mutex, threads>>

\* ------------------------------------------------------------ String
beginsWith(s, p) == Len(s) >= Len(p) /\ SubSeq(s, 1, Len(p)) = p

substr(s, pos) == SubSeq(s, pos + 1, Len(s))

isSpace(c) == c = " "

RECURSIVE trimLeft(_)
trimLeft(s) == IF Len(s) > 0 /\ isSpace(SubSeq(s, 1, 1)) THEN trimLeft(substr(s, 1)) ELSE s

RECURSIVE trimRight(_)
trimRight(s) ==
  IF Len(s) > 0 /\ isSpace(SubSeq(s, Len(s), Len(s)))
  THEN trimRight(SubSeq(s, 1, Len(s) - 1))
  ELSE s

trim(s) == trimRight(trimLeft(s))

\* Index (0-based) of the first whitespace character of s, Len(s) if none.
RECURSIVE tokenEnd(_, _)
tokenEnd(s, i) ==
  IF i >= Len(s) \/ isSpace(SubSeq(s, i + 1, i + 1)) THEN i ELSE tokenEnd(s, i + 1)

\* String::extract: the first whitespace-delimited token, and what is left of
\* the string after it has been removed.
extract(s) ==
  LET e == tokenEnd(s, 0)
  IN [token |-> SubSeq(s, 1, e), rest |-> substr(s, IF e < Len(s) THEN e + 1 ELSE e)]

\* ------------------------------------------------------------ Map
MapPut(m, k, v) == [x \in DOMAIN m \cup {k} |-> IF x = k THEN v ELSE m[x]]

MapRemove(m, k) == [x \in DOMAIN m \ {k} |-> m[x]]

EmptyMap == [x \in {} |-> 0]

\* Map::get and Map::take throw MapException for a key the map does not
\* hold, Map::add for a key it holds already.
MapMissing(m, k) == k \notin DOMAIN m

\* ------------------------------------------------------------ records
ClientInfo(clientId, nick) ==
  [clientId |-> clientId, nick |-> nick, pendingMessages |-> <<>>]

ChatReceivedMessage(mode, channelName, fromConnection, fromNick, text) ==
  [context |-> [mode |-> mode, channelName |-> channelName],
   fromConnection |-> fromConnection, fromNick |-> fromNick, text |-> text]

\* The processor's members as one value the methods transform; exc is set
\* when a MapException is leaving the method, calls lists the command
\* handler's invocations.
Heap ==
  [clients |-> m_clients, nicks |-> m_nicks, channels |-> m_channels,
   exc |-> FALSE, calls |-> <<>>]

Throw(h) == [h EXCEPT !.exc = TRUE]

\* Mutant: the message is put at the head of every queue.
AppendAll_front(clients, msg) ==
  [c \in DOMAIN clients |->
     [clients[c] EXCEPT !.pendingMessages = <<msg>> \o @]]

AppendAll(clients, msg) ==
  [c \in DOMAIN clients |->
     [clients[c] EXCEPT !.pendingMessages = Append(@, msg)]]

\* ------------------------------------------------------------ nicknames
\* Mutant: an "if" in place of the "while": at most one suffix is appended.
makeNickUnique_once(nicks, nick) ==
  IF nick \in DOMAIN nicks \/ nick = ServerNick THEN nick \o "_" ELSE nick

RECURSIVE makeNickUnique(_, _)
makeNickUnique(nicks, nick) ==
  IF nick \in DOMAIN nicks \/ nick = ServerNick
  THEN makeNickUnique(nicks, nick \o "_")
  ELSE nick

connectionNick(h, clientId) ==
  IF clientId = ServerConnectionId THEN [h |-> h, r |-> ServerNick]
  ELSE IF MapMissing(h.clients, clientId)
       THEN [h |-> Throw(h), r |-> ""]
       ELSE [h |-> h, r |-> h.clients[clientId].nick]

findNick(h, nick) ==
  IF nick \in DOMAIN h.nicks THEN {h.nicks[nick]}
  ELSE IF nick = ServerNick THEN {ServerConnectionId}
  ELSE {}

\* Mutant: the new session is inserted before the notice is distributed.
connectClient_noticeToAll(h, clientId, nick0) ==
  LET nick1 == IF nick0 = "" THEN "Player_" \o ToString(clientId) ELSE nick0
      nick == makeNickUnique(h.nicks, nick1)
      notice == ChatReceivedMessage("Broadcast", "", ServerConnectionId, ServerNick,
                                    "Player '" \o nick \o "' connected")
  IN IF ~MapMissing(h.clients, clientId)
     THEN [h |-> Throw([h EXCEPT !.clients = AppendAll(h.clients, notice)]), r |-> ""]
     ELSE [h |-> [h EXCEPT !.clients = AppendAll(MapPut(h.clients, clientId,
                                                        ClientInfo(clientId, nick)), notice),
                           !.nicks = MapPut(h.nicks, nick, clientId)],
           r |-> nick]

connectClient(h, clientId, nick0) ==
  LET nick1 == IF nick0 = "" THEN "Player_" \o ToString(clientId) ELSE nick0
      nick == makeNickUnique(h.nicks, nick1)
      notice == ChatReceivedMessage("Broadcast", "", ServerConnectionId, ServerNick,
                                    "Player '" \o nick \o "' connected")
      notified == AppendAll(h.clients, notice)
  IN IF ~MapMissing(h.clients, clientId)
     THEN [h |-> Throw([h EXCEPT !.clients = notified]), r |-> ""]
     ELSE [h |-> [h EXCEPT !.clients = MapPut(notified, clientId, ClientInfo(clientId, nick)),
                           !.nicks = MapPut(h.nicks, nick, clientId)],
           r |-> nick]

\* Mutant: the rename restamps the messages of the session that wait in queues.
renick_restamp(h, clientId, nick) ==
  IF MapMissing(h.clients, clientId) THEN [h |-> Throw(h), r |-> ""]
  ELSE LET nicks1 == MapRemove(h.nicks, h.clients[clientId].nick)
           clients2 == [h.clients EXCEPT ![clientId].nick = nick]
           restamp(q) == [i \in 1..Len(q) |->
                            IF q[i].fromConnection = clientId
                            THEN [q[i] EXCEPT !.fromNick = nick] ELSE q[i]]
           clients3 == [c \in DOMAIN clients2 |->
                          [clients2[c] EXCEPT !.pendingMessages = restamp(@)]]
       IN [h |-> [h EXCEPT !.clients = clients3, !.nicks = MapPut(nicks1, nick, clientId)],
           r |-> nick]

renick(h, clientId, nick) ==
  IF MapMissing(h.clients, clientId) THEN [h |-> Throw(h), r |-> ""]
  ELSE LET nicks1 == MapRemove(h.nicks, h.clients[clientId].nick)
           unique == makeNickUnique(nicks1, nick)
           clients1 == [h.clients EXCEPT ![clientId].nick = unique]
           clients2 == [clients1 EXCEPT ![clientId].nick = nick]
       IN [h |-> [h EXCEPT !.clients = clients2, !.nicks = MapPut(nicks1, nick, clientId)],
           r |-> nick]

\* ------------------------------------------------------------ channels
ChannelSet(channels, channelName) ==
  IF channelName \in DOMAIN channels THEN channels[channelName] ELSE {}

\* Mutant: every join reports a change.
joinChannel_true(h, clientId, channelName) ==
  LET members == ChannelSet(h.channels, channelName)
  IN [h |-> [h EXCEPT !.channels = MapPut(h.channels, channelName, members \cup {clientId})],
      r |-> TRUE]

joinChannel(h, clientId, channelName) ==
  LET members == ChannelSet(h.channels, channelName)
  IN [h |-> [h EXCEPT !.channels = MapPut(h.channels, channelName, members \cup {clientId})],
      r |-> clientId \notin members]

\* Mutant: leaving empties the channel.
leaveChannel_clear(h, clientId, channelName) ==
  LET members == ChannelSet(h.channels, channelName)
  IN [h |-> [h EXCEPT !.channels = MapPut(h.channels, channelName, {})],
      r |-> clientId \in members]

leaveChannel(h, clientId, channelName) ==
  LET members == ChannelSet(h.channels, channelName)
  IN [h |-> [h EXCEPT !.channels = MapPut(h.channels, channelName, members \ {clientId})],
      r |-> clientId \in members]

clientChannels(h, clientId) == {c \in DOMAIN h.channels : clientId \in h.channels[c]}

activeChannels(h) == {c \in DOMAIN h.channels : h.channels[c] # {}}

\* The loop of disconnectClient over clientChannels(clientId).
RECURSIVE leaveChannels(_, _, _)
leaveChannels(h, clientId, channels) ==
  IF channels = {} THEN h
  ELSE LET channel == CHOOSE c \in channels : TRUE
       IN leaveChannels(leaveChannel(h, clientId, channel).h, clientId, channels \ {channel})

\* Mutant: the channels are not left.
disconnectClient_keepChannels(h, clientId) ==
  IF MapMissing(h.clients, clientId) THEN [h |-> Throw(h), r |-> <<>>]
  ELSE LET clientInfo == h.clients[clientId]
           notice == ChatReceivedMessage("Broadcast", "", ServerConnectionId, ServerNick,
                                         "Player '" \o clientInfo.nick \o "' disconnected")
       IN [h |-> [h EXCEPT !.clients = AppendAll(MapRemove(h.clients, clientId), notice),
                           !.nicks = MapRemove(h.nicks, clientInfo.nick)],
           r |-> clientInfo.pendingMessages]

disconnectClient(h, clientId) ==
  LET h1 == leaveChannels(h, clientId, clientChannels(h, clientId))
  IN IF MapMissing(h1.clients, clientId) THEN [h |-> Throw(h1), r |-> <<>>]
     ELSE LET clientInfo == h1.clients[clientId]
              notice == ChatReceivedMessage("Broadcast", "", ServerConnectionId, ServerNick,
                                            "Player '" \o clientInfo.nick \o "' disconnected")
          IN [h |-> [h1 EXCEPT !.clients = AppendAll(MapRemove(h1.clients, clientId), notice),
                               !.nicks = MapRemove(h1.nicks, clientInfo.nick)],
              r |-> clientInfo.pendingMessages]

\* Mutant: the queue is copied, not taken.
pullPendingMessages_copy(h, clientId) ==
  IF clientId \in DOMAIN h.clients
  THEN [h |-> h, r |-> h.clients[clientId].pendingMessages]
  ELSE [h |-> h, r |-> <<>>]

pullPendingMessages(h, clientId) ==
  IF clientId \in DOMAIN h.clients
  THEN [h |-> [h EXCEPT !.clients[clientId].pendingMessages = <<>>],
        r |-> h.clients[clientId].pendingMessages]
  ELSE [h |-> h, r |-> <<>>]

\* ------------------------------------------------------------ commands
\* The injected command handler: "reply" answers every command, "silent"
\* answers with the empty string.
HandlerResponse(handler, fromConnection, command, commandLine) ==
  IF handler = "silent" THEN "" ELSE "ok " \o command

\* String::find of a one-character string from position pos (0-based); -1 is npos.
RECURSIVE find(_, _, _)
find(s, c, pos) ==
  IF pos >= Len(s) THEN -1
  ELSE IF SubSeq(s, pos + 1, pos + 1) = c THEN pos
  ELSE find(s, c, pos + 1)

\* Mutant: a quote that is never closed takes the rest of the line as the target.
whisperArguments_unclosed(commandLine) ==
  IF beginsWith(commandLine, "\"")
  THEN LET endQuoteIndex == find(commandLine, "\"", 1)
       IN IF endQuoteIndex # -1
          THEN [target |-> SubSeq(commandLine, 2, endQuoteIndex),
                messageContent |-> trim(substr(commandLine, endQuoteIndex + 1))]
          ELSE [target |-> substr(commandLine, 1), messageContent |-> ""]
  ELSE LET x == extract(commandLine)
       IN [target |-> x.token, messageContent |-> trim(x.rest)]

\* Lines 235-249: the target and the text of a "w" command.
whisperArguments(commandLine) ==
  IF beginsWith(commandLine, "\"")
  THEN LET endQuoteIndex == find(commandLine, "\"", 1)
       IN IF endQuoteIndex # -1
          THEN [target |-> SubSeq(commandLine, 2, endQuoteIndex),
                messageContent |-> trim(substr(commandLine, endQuoteIndex + 1))]
          ELSE [target |-> "", messageContent |-> ""]
  ELSE LET x == extract(commandLine)
       IN [target |-> x.token, messageContent |-> trim(x.rest)]

\* Mutant: an empty response is queued as well.
respond_empty(h, fromConnection, response) ==
  IF MapMissing(h.clients, fromConnection) THEN Throw(h)
  ELSE [h EXCEPT !.clients[fromConnection].pendingMessages =
          Append(@, ChatReceivedMessage("CommandResult", "", ServerConnectionId,
                                        ServerNick, response))]

\* Lines 262-269: the response queued to the issuing connection.
respond(h, fromConnection, response) ==
  IF response = "" THEN h
  ELSE IF MapMissing(h.clients, fromConnection) THEN Throw(h)
  ELSE [h EXCEPT !.clients[fromConnection].pendingMessages =
          Append(@, ChatReceivedMessage("CommandResult", "", ServerConnectionId,
                                        ServerNick, response))]

RECURSIVE handleCommand(_, _), whisper(_, _, _, _)

\* Mutant: the escape strips both slashes.
handleCommand_stripBoth(h, message) ==
  IF ~beginsWith(message.text, "/")
  THEN [h |-> h, r |-> FALSE, message |-> message]
  ELSE IF beginsWith(message.text, "//")
  THEN [h |-> h, r |-> FALSE, message |-> [message EXCEPT !.text = substr(@, 2)]]
  ELSE
    LET x == extract(substr(message.text, 1))
        command == x.token
        commandLine == x.rest
        from == message.fromConnection
        after ==
          IF command = "nick"
          THEN LET rn == renick(h, from, trim(commandLine))
               IN IF rn.h.exc THEN rn.h
                  ELSE respond(rn.h, from, "Nick changed to " \o rn.r)
          ELSE IF command = "w"
          THEN LET a == whisperArguments(commandLine)
               IN IF a.target \in DOMAIN h.nicks
                  THEN whisper(h, from, h.nicks[a.target], a.messageContent)
                  ELSE respond(h, from, "No such nick " \o a.target)
          ELSE IF m_commandHandler # "none"
          THEN respond([h EXCEPT !.calls = Append(@, [handler |-> m_commandHandler,
                                                      fromConnection |-> from,
                                                      command |-> command,
                                                      commandLine |-> commandLine])],
                       from, HandlerResponse(m_commandHandler, from, command, commandLine))
          ELSE respond(h, from, "No such command " \o command)
    IN [h |-> after, r |-> TRUE, message |-> message]

\* r: whether the text was consumed; message: the message as handleCommand
\* leaves it (it is passed by reference).
handleCommand(h, message) ==
  IF ~beginsWith(message.text, "/")
  THEN [h |-> h, r |-> FALSE, message |-> message]
  ELSE IF beginsWith(message.text, "//")
  THEN [h |-> h, r |-> FALSE, message |-> [message EXCEPT !.text = substr(@, 1)]]
  ELSE
    LET x == extract(substr(message.text, 1))
        command == x.token
        commandLine == x.rest
        from == message.fromConnection
        after ==
          IF command = "nick"
          THEN LET rn == renick(h, from, trim(commandLine))
               IN IF rn.h.exc THEN rn.h
                  ELSE respond(rn.h, from, "Nick changed to " \o rn.r)
          ELSE IF command = "w"
          THEN LET a == whisperArguments(commandLine)
               IN IF a.target \in DOMAIN h.nicks
                  THEN whisper(h, from, h.nicks[a.target], a.messageContent)
                  ELSE respond(h, from, "No such nick " \o a.target)
          ELSE IF m_commandHandler # "none"
          THEN respond([h EXCEPT !.calls = Append(@, [handler |-> m_commandHandler,
                                                      fromConnection |-> from,
                                                      command |-> command,
                                                      commandLine |-> commandLine])],
                       from, HandlerResponse(m_commandHandler, from, command, commandLine))
          ELSE respond(h, from, "No such command " \o command)
    IN [h |-> after, r |-> TRUE, message |-> message]

whisper(h, sourceConnectionId, targetClientId, text) ==
  LET cn == connectionNick(h, sourceConnectionId)
  IN IF cn.h.exc THEN cn.h
     ELSE
       LET hc == handleCommand(cn.h, ChatReceivedMessage("Whisper", "", sourceConnectionId,
                                                         cn.r, text))
           h1 == IF sourceConnectionId = ServerConnectionId THEN hc.h
                 ELSE IF MapMissing(hc.h.clients, sourceConnectionId) THEN Throw(hc.h)
                 ELSE [hc.h EXCEPT !.clients[sourceConnectionId].pendingMessages =
                         Append(@, hc.message)]
       IN IF hc.h.exc \/ hc.r THEN hc.h
          ELSE IF h1.exc THEN h1
          ELSE IF MapMissing(h1.clients, targetClientId) THEN Throw(h1)
          ELSE [h1 EXCEPT !.clients[targetClientId].pendingMessages = Append(@, hc.message)]

\* Mutant: the sender gets no copy.
broadcast_skipSender(h, sourceConnectionId, text) ==
  LET cn == connectionNick(h, sourceConnectionId)
  IN IF cn.h.exc THEN cn.h
     ELSE
       LET hc == handleCommand(cn.h, ChatReceivedMessage("Broadcast", "", sourceConnectionId,
                                                         cn.r, text))
           others == [c \in DOMAIN hc.h.clients \ {sourceConnectionId} |-> hc.h.clients[c]]
           sent == AppendAll(others, hc.message)
       IN IF hc.h.exc \/ hc.r THEN hc.h
          ELSE [hc.h EXCEPT !.clients =
                  [c \in DOMAIN hc.h.clients |->
                     IF c = sourceConnectionId THEN hc.h.clients[c] ELSE sent[c]]]

broadcast(h, sourceConnectionId, text) ==
  LET cn == connectionNick(h, sourceConnectionId)
  IN IF cn.h.exc THEN cn.h
     ELSE
       LET hc == handleCommand(cn.h, ChatReceivedMessage("Broadcast", "", sourceConnectionId,
                                                         cn.r, text))
       IN IF hc.h.exc \/ hc.r THEN hc.h
          ELSE [hc.h EXCEPT !.clients = AppendAll(hc.h.clients, hc.message)]

\* The loop of message over m_channels[channelName], in the set's order; it
\* stops at the first member m_clients.get does not find.
deliver(h, members, msg) ==
  LET missing == {m \in members : MapMissing(h.clients, m)}
      reached == {m \in members : \A x \in missing : m < x}
      h1 == [h EXCEPT !.clients =
               [c \in DOMAIN h.clients |->
                  IF c \in reached
                  THEN [h.clients[c] EXCEPT !.pendingMessages = Append(@, msg)]
                  ELSE h.clients[c]]]
  IN IF missing = {} THEN h1 ELSE Throw(h1)

\* Mutant: only a member's message is delivered.
message_fromMember(h, sourceConnectionId, mode, channelName, text) ==
  LET cn == connectionNick(h, sourceConnectionId)
  IN IF cn.h.exc THEN cn.h
     ELSE
       LET hc == handleCommand(cn.h, ChatReceivedMessage(mode, channelName,
                                                         sourceConnectionId, cn.r, text))
           members == ChannelSet(hc.h.channels, channelName)
           h1 == [hc.h EXCEPT !.channels = MapPut(hc.h.channels, channelName, members)]
       IN IF hc.h.exc \/ hc.r THEN hc.h
          ELSE IF sourceConnectionId \in members THEN deliver(h1, members, hc.message)
          ELSE h1

message(h, sourceConnectionId, mode, channelName, text) ==
  LET cn == connectionNick(h, sourceConnectionId)
  IN IF cn.h.exc THEN cn.h
     ELSE
       LET hc == handleCommand(cn.h, ChatReceivedMessage(mode, channelName,
                                                         sourceConnectionId, cn.r, text))
           members == ChannelSet(hc.h.channels, channelName)
           h1 == [hc.h EXCEPT !.channels = MapPut(hc.h.channels, channelName, members)]
       IN IF hc.h.exc \/ hc.r THEN hc.h
          ELSE deliver(h1, members, hc.message)

adminBroadcast(h, text) == broadcast(h, ServerConnectionId, text)

adminMessage(h, context, channelName, text) ==
  message(h, ServerConnectionId, context, channelName, text)

adminWhisper(h, targetClientId, text) == whisper(h, ServerConnectionId, targetClientId, text)

\* ------------------------------------------------------------ state machine
\* What the last call was, what it returned and whether it threw.
Op(name, clientId, text, channelName, target, mode) ==
  [name |-> name, clientId |-> clientId, text |-> text, channelName |-> channelName,
   target |-> target, mode |-> mode]

RetVoid == [nick |-> "", messages |-> <<>>, changed |-> FALSE]

RetNick(n) == [RetVoid EXCEPT !.nick = n]

RetMessages(q) == [RetVoid EXCEPT !.messages = q]

RetBool(b) == [RetVoid EXCEPT !.changed = b]

RECURSIVE Pending(_, _)
Pending(clients, ids) ==
  IF ids = {} THEN 0
  ELSE LET c == CHOOSE x \in ids : TRUE
       IN Len(clients[c].pendingMessages) + Pending(clients, ids \ {c})

\* The messages waiting in all queues together stay within MaxPending.
QueuesFit(h) == Pending(h.clients, DOMAIN h.clients) <= MaxPending

\* The members, the exception and the return value the caller sees when the
\* method has run to h.
Effect(h, o, r) ==
  /\ m_clients' = h.clients
  /\ m_nicks' = h.nicks
  /\ m_channels' = h.channels
  /\ exc' = h.exc
  /\ calls' = h.calls
  /\ op' = o
  /\ ret' = IF h.exc THEN RetVoid ELSE r
  /\ UNCHANGED m_commandHandler

\* RecursiveMutex: free, whether lock() by thread t returns at once, and the
\* mutex after lock() and after unlock().
Unlocked == [owner |-> 0, count |-> 0]

CanLock(t) == m_mutex.owner \in {0, t}

Acquire(t) == [owner |-> t, count |-> m_mutex.count + 1]

Release == IF m_mutex.count = 1 THEN Unlocked ELSE [m_mutex EXCEPT !.count = @ - 1]

\* A thread that is in no call.
IdleThread ==
  [o |-> Op("idle", 0, "", "", 0, ""), stack |-> <<>>, todo |-> <<>>,
   out |-> [h |-> [clients |-> EmptyMap, nicks |-> EmptyMap, channels |-> EmptyMap,
                   exc |-> FALSE, calls |-> <<>>],
            r |-> RetVoid]]

\* The method has run to h, as one step of a single caller.
Return(h, o, r) ==
  /\ QueuesFit(h)
  /\ Effect(h, o, r)
  /\ UNCHANGED <<m_mutex, threads>>

Connected == DOMAIN m_clients

Init ==
  /\ m_clients = EmptyMap
  /\ m_nicks = EmptyMap
  /\ m_channels = EmptyMap
  /\ m_commandHandler = "none"
  /\ op = Op("init", 0, "", "", 0, "")
  /\ ret = RetVoid
  /\ exc = FALSE
  /\ calls = <<>>
  /\ m_mutex = Unlocked
  /\ threads = [t \in ThreadIds |-> IdleThread]

ConnectClient(ids, nicks) ==
  \E clientId \in ids \ Connected, nick \in nicks :
    LET c == connectClient(Heap, clientId, nick)
    IN Return(c.h, Op("connectClient", clientId, nick, "", 0, ""), RetNick(c.r))

DisconnectClient(ids) ==
  \E clientId \in ids :
    LET c == disconnectClient(Heap, clientId)
    IN Return(c.h, Op("disconnectClient", clientId, "", "", 0, ""), RetMessages(c.r))

Renick(nicks) ==
  \E clientId \in Connected, nick \in nicks :
    LET c == renick(Heap, clientId, nick)
    IN Return(c.h, Op("renick", clientId, nick, "", 0, ""), RetNick(c.r))

JoinChannel(channels) ==
  \E clientId \in Connected, channelName \in channels :
    LET c == joinChannel(Heap, clientId, channelName)
    IN Return(c.h, Op("joinChannel", clientId, "", channelName, 0, ""), RetBool(c.r))

LeaveChannel(channels) ==
  \E clientId \in Connected, channelName \in channels :
    LET c == leaveChannel(Heap, clientId, channelName)
    IN Return(c.h, Op("leaveChannel", clientId, "", channelName, 0, ""), RetBool(c.r))

Broadcast(texts) ==
  \E clientId \in Connected, text \in texts :
    Return(broadcast(Heap, clientId, text), Op("broadcast", clientId, text, "", 0, ""), RetVoid)

Message(modes, channels, texts) ==
  \E clientId \in Connected, mode \in modes, channelName \in channels, text \in texts :
    Return(message(Heap, clientId, mode, channelName, text),
           Op("message", clientId, text, channelName, 0, mode), RetVoid)

Whisper(texts) ==
  \E clientId \in Connected, target \in Connected, text \in texts :
    Return(whisper(Heap, clientId, target, text),
           Op("whisper", clientId, text, "", target, ""), RetVoid)

AdminBroadcast(texts) ==
  \E text \in texts :
    Return(adminBroadcast(Heap, text),
           Op("adminBroadcast", ServerConnectionId, text, "", 0, ""), RetVoid)

AdminMessage(modes, channels, texts) ==
  \E mode \in modes, channelName \in channels, text \in texts :
    Return(adminMessage(Heap, mode, channelName, text),
           Op("adminMessage", ServerConnectionId, text, channelName, 0, mode), RetVoid)

AdminWhisper(texts) ==
  \E target \in Connected, text \in texts :
    Return(adminWhisper(Heap, target, text),
           Op("adminWhisper", ServerConnectionId, text, "", target, ""), RetVoid)

PullPendingMessages(ids) ==
  \E clientId \in ids :
    LET c == pullPendingMessages(Heap, clientId)
    IN Return(c.h, Op("pullPendingMessages", clientId, "", "", 0, ""), RetMessages(c.r))

SetCommandHandler(handlers) ==
  \E handler \in handlers :
    /\ m_commandHandler' = handler
    /\ op' = Op("setCommandHandler", 0, handler, "", 0, "")
    /\ ret' = RetVoid
    /\ exc' = FALSE
    /\ calls' = <<>>
    /\ UNCHANGED <<m_clients, m_nicks, m_channels, m_mutex, threads>>

ClearCommandHandler ==
  /\ m_commandHandler' = "none"
  /\ op' = Op("clearCommandHandler", 0, "", "", 0, "")
  /\ ret' = RetVoid
  /\ exc' = FALSE
  /\ calls' = <<>>
  /\ UNCHANGED <<m_clients, m_nicks, m_channels, m_mutex, threads>>

\* ------------------------------------------------------------ the processor
\* Every public operation, with one requested nickname and one channel.
Next ==
  \/ ConnectClient(ClientIds, {"a"})
  \/ DisconnectClient(ClientIds)
  \/ Renick({"a"})
  \/ JoinChannel({"c1"})
  \/ LeaveChannel({"c1"})
  \/ Broadcast({"hi", "/nick a"})
  \/ Message({"Local"}, {"c1"}, {"hi"})
  \/ Whisper({"hi"})
  \/ AdminBroadcast({"hi"})
  \/ AdminMessage({"Local"}, {"c1"}, {"hi"})
  \/ AdminWhisper({"hi"})
  \/ PullPendingMessages(ClientIds)
  \/ SetCommandHandler({"reply"})
  \/ ClearCommandHandler

Spec == Init /\ [][Next]_vars

\* Sessions and nicknames: connect, disconnect, rename (directly and by the
\* nick command), broadcast and drain.
SessionNicks == {"a", "server"}

NextSession ==
  \/ ConnectClient(ClientIds, SessionNicks)
  \/ DisconnectClient(ClientIds)
  \/ Renick(SessionNicks)
  \/ Broadcast({"hi", "/nick a"})
  \/ Whisper({"/nick a"})
  \/ PullPendingMessages(ClientIds)

SpecSession == Init /\ [][NextSession]_vars

\* Connect calls alone (and the drains that make room in the queues).
ConnectNicks == {"", "a", "server", "server_"}

NextConnect ==
  \/ ConnectClient(ClientIds \cup {3}, ConnectNicks)
  \/ PullPendingMessages(ClientIds \cup {3})

SpecConnect == Init /\ [][NextConnect]_vars

\* Channels: sessions with their default nicknames join, leave, send to
\* channels and disconnect.
ChannelNames == {"c1", "c2"}

NextChannel ==
  \/ ConnectClient(ClientIds, {""})
  \/ DisconnectClient(ClientIds)
  \/ JoinChannel(ChannelNames)
  \/ LeaveChannel(ChannelNames)
  \/ Message({"Local"}, ChannelNames, {"hi"})
  \/ AdminMessage({"Local"}, ChannelNames, {"//hi"})
  \/ PullPendingMessages(ClientIds)

SpecChannel == Init /\ [][NextChannel]_vars

\* Whispers among three sessions, sent directly and by the w command, with
\* renames in between.
WhisperIds == {1, 2, 3}

NextWhisper ==
  \/ ConnectClient(WhisperIds, {"a"})
  \/ Renick({"a"})
  \/ Whisper({"hi"})
  \/ Broadcast({"/w a hi"})
  \/ AdminWhisper({"hi"})
  \/ AdminBroadcast({"/w a hi"})
  \/ PullPendingMessages(WhisperIds)

SpecWhisper == Init /\ [][NextWhisper]_vars

\* The w command with targets that name nobody, sessions being renamed to
\* the target and to the empty nickname in between.
TargetNicks == {"", "zed"}

TargetTexts == {"/w zed hi", "/w", "/w \"zed hi"}

NextTarget ==
  \/ ConnectClient(ClientIds, {"a"})
  \/ Renick(TargetNicks)
  \/ Broadcast(TargetTexts)
  \/ Whisper({"/w"})
  \/ PullPendingMessages(ClientIds)

SpecTarget == Init /\ [][NextTarget]_vars

\* Escaped texts in every addressing mode, a command handler installed or not.
NextEscape ==
  \/ ConnectClient(ClientIds, {"a"})
  \/ JoinChannel({"c1"})
  \/ SetCommandHandler({"reply"})
  \/ Broadcast({"//nick b"})
  \/ Message({"Local"}, {"c1"}, {"//w a hi"})
  \/ Whisper({"//foo"})
  \/ AdminWhisper({"//nick b"})
  \/ PullPendingMessages(ClientIds)

SpecEscape == Init /\ [][NextEscape]_vars

\* Joins and leaves of two channels by sessions that come and go.
NextMembership ==
  \/ ConnectClient(ClientIds, {""})
  \/ DisconnectClient(ClientIds)
  \/ JoinChannel(ChannelNames)
  \/ LeaveChannel(ChannelNames)
  \/ PullPendingMessages(ClientIds)

SpecMembership == Init /\ [][NextMembership]_vars

\* Commands other than nick and w, with a handler that answers, one that
\* answers with the empty string, and none.
HandlerTexts == {"/foo x", "/bar"}

NextHandler ==
  \/ ConnectClient(ClientIds, {"a"})
  \/ SetCommandHandler({"reply", "silent"})
  \/ ClearCommandHandler
  \/ Broadcast(HandlerTexts)
  \/ Whisper({"/foo x"})
  \/ PullPendingMessages(ClientIds)

SpecHandler == Init /\ [][NextHandler]_vars

\* Commands sent by the server in every addressing mode.
AdminTexts == {"/foo", "/w zed hi"}

NextAdmin ==
  \/ ConnectClient(ClientIds, {"a"})
  \/ JoinChannel({"c1"})
  \/ SetCommandHandler({"reply", "silent"})
  \/ ClearCommandHandler
  \/ AdminBroadcast(AdminTexts)
  \/ AdminMessage({"Local"}, {"c1"}, AdminTexts)
  \/ AdminWhisper(AdminTexts)
  \/ PullPendingMessages(ClientIds)

SpecAdmin == Init /\ [][NextAdmin]_vars

\* ------------------------------------------------------------ threads
\* Mutant: broadcast has no locker.
HasLocker_notBroadcast(method) == method \notin {"makeNickUnique", "handleCommand", "broadcast"}

\* Whether the method opens with RecursiveMutexLocker locker(m_mutex): every
\* public method does, the private makeNickUnique and handleCommand do not.
HasLocker(method) == method \notin {"makeNickUnique", "handleCommand"}

\* A call of a method and the calls it makes, as the sequence of entries to
\* and returns from methods.  A MapException returns from the methods it
\* leaves as a return statement does: the lockers are released on the way.
Call(method, inner) ==
  <<[enter |-> TRUE, method |-> method]>> \o inner \o <<[enter |-> FALSE, method |-> method]>>

RECURSIVE Times(_, _)
Times(calls1, n) == IF n = 0 THEN <<>> ELSE calls1 \o Times(calls1, n - 1)

\* Lines 217-272: the calls of handleCommand for a text of connection from.
RECURSIVE handleCommandCalls(_, _, _)
handleCommandCalls(h, from, text) ==
  LET x == extract(substr(text, 1))
      command == x.token
      a == whisperArguments(x.rest)
      queued == IF MapMissing(h.clients, from) THEN <<>> ELSE Call("connectionNick", <<>>)
      body ==
        IF ~beginsWith(text, "/") \/ beginsWith(text, "//") THEN <<>>
        ELSE IF command = "nick"
        THEN IF MapMissing(h.clients, from) THEN Call("renick", <<>>)
             ELSE Call("renick", Call("makeNickUnique", <<>>)) \o queued
        ELSE IF command = "w"
        THEN IF a.target \in DOMAIN h.nicks
             THEN Call("whisper",
                       Call("connectionNick", <<>>)
                         \o handleCommandCalls(h, from, a.messageContent))
             ELSE queued
        ELSE IF m_commandHandler # "none"
                  /\ HandlerResponse(m_commandHandler, from, command, x.rest) = ""
        THEN <<>>
        ELSE queued
  IN Call("handleCommand", body)

\* The calls of the public method o names, from the members h.
MethodCalls(h, o) ==
  IF o.name = "connectClient"
  THEN Call("connectClient", Call("makeNickUnique", <<>>))
  ELSE IF o.name = "disconnectClient"
  THEN Call("disconnectClient",
            Call("clientChannels", <<>>)
              \o Times(Call("leaveChannel", <<>>), Cardinality(clientChannels(h, o.clientId))))
  ELSE IF o.name = "broadcast"
  THEN Call("broadcast",
            Call("connectionNick", <<>>)
              \o (IF MapMissing(h.clients, o.clientId) THEN <<>>
                  ELSE handleCommandCalls(h, o.clientId, o.text)))
  ELSE Call(o.name, <<>>)

\* The members and the result the public method o names leaves, from h.
MethodResult(h, o) ==
  IF o.name = "connectClient"
  THEN LET c == connectClient(h, o.clientId, o.text) IN [h |-> c.h, r |-> RetNick(c.r)]
  ELSE IF o.name = "disconnectClient"
  THEN LET c == disconnectClient(h, o.clientId) IN [h |-> c.h, r |-> RetMessages(c.r)]
  ELSE IF o.name = "joinChannel"
  THEN LET c == joinChannel(h, o.clientId, o.channelName) IN [h |-> c.h, r |-> RetBool(c.r)]
  ELSE IF o.name = "broadcast"
  THEN [h |-> broadcast(h, o.clientId, o.text), r |-> RetVoid]
  ELSE LET c == pullPendingMessages(h, o.clientId) IN [h |-> c.h, r |-> RetMessages(c.r)]

\* The calls the threads make.
ThreadCalls ==
  {Op("connectClient", 1, "a", "", 0, ""),
   Op("connectClient", 2, "a", "", 0, ""),
   Op("joinChannel", 1, "", "c1", 0, ""),
   Op("disconnectClient", 1, "", "", 0, ""),
   Op("broadcast", 1, "/nick b", "", 0, ""),
   Op("broadcast", 2, "/w a hi", "", 0, ""),
   Op("pullPendingMessages", 2, "", "", 0, "")}

Inside(t) == threads[t].stack # <<>>

\* Thread t calls a public method.
Invoke(t) ==
  \E o \in ThreadCalls :
    /\ threads[t] = IdleThread
    /\ threads' = [threads EXCEPT ![t] = [IdleThread EXCEPT !.o = o]]
    /\ UNCHANGED <<m_clients, m_nicks, m_channels, m_commandHandler, op, ret, exc, calls,
                   m_mutex>>

\* Thread t enters a method: the public one it called, which reads the
\* members, or the next one that one calls.  A locker waits for the mutex.
Enter(t) ==
  LET first == threads[t].o.name # "idle" /\ ~Inside(t)
      todo == IF first THEN MethodCalls(Heap, threads[t].o) ELSE threads[t].todo
      out == IF first THEN MethodResult(Heap, threads[t].o) ELSE threads[t].out
  IN /\ first \/ Inside(t)
     /\ todo # <<>> /\ todo[1].enter
     /\ HasLocker(todo[1].method) => CanLock(t)
     /\ QueuesFit(out.h)
     /\ m_mutex' = IF HasLocker(todo[1].method) THEN Acquire(t) ELSE m_mutex
     /\ threads' = [threads EXCEPT ![t] = [@ EXCEPT !.stack = Append(@, todo[1].method),
                                                    !.todo = Tail(todo),
                                                    !.out = out]]
     /\ UNCHANGED <<m_clients, m_nicks, m_channels, m_commandHandler, op, ret, exc, calls>>

\* Thread t returns from a method, the locker of which unlocks the mutex.  The
\* return from the public method leaves the members as the method made them.
Leave(t) ==
  LET todo == threads[t].todo
      stack == threads[t].stack
      method == stack[Len(stack)]
  IN /\ Inside(t)
     /\ todo # <<>> /\ ~todo[1].enter
     /\ m_mutex' = IF HasLocker(method) THEN Release ELSE m_mutex
     /\ IF Len(stack) = 1
        THEN /\ threads' = [threads EXCEPT ![t] = IdleThread]
             /\ Effect(threads[t].out.h, threads[t].o, threads[t].out.r)
        ELSE /\ threads' = [threads EXCEPT ![t] = [@ EXCEPT !.stack = SubSeq(@, 1, Len(@) - 1),
                                                            !.todo = Tail(todo)]]
             /\ UNCHANGED <<m_clients, m_nicks, m_channels, m_commandHandler,
                            op, ret, exc, calls>>

NextThreads == \E t \in ThreadIds : Invoke(t) \/ Enter(t) \/ Leave(t)

SpecThreads == Init /\ [][NextThreads]_vars

\* ------------------------------------------------------------ claims
NickOf(c) == m_clients[c].nick

QueueOf(c) == m_clients[c].pendingMessages

\* nick followed by k '_' characters.
RECURSIVE Suffixed(_, _)
Suffixed(nick, k) == IF k = 0 THEN nick ELSE Suffixed(nick, k - 1) \o "_"

\* C1: in every reachable state no two connected sessions hold the same
\* nickname and no connected session holds the reserved nickname "server".
C1_NicknamesUnique ==
  /\ \A x, y \in Connected : x # y => NickOf(x) # NickOf(y)
  /\ \A x \in Connected : NickOf(x) # ServerNick

\* C2: the nickname index and the session table are mutually consistent:
\* every connected session's nickname maps to its id, and every index entry
\* names a connected session that stores that nickname.
C2_IndexConsistent ==
  /\ \A x \in Connected : NickOf(x) \in DOMAIN m_nicks /\ m_nicks[NickOf(x)] = x
  /\ \A n \in DOMAIN m_nicks : m_nicks[n] \in Connected /\ NickOf(m_nicks[n]) = n

\* The base name of the connect just made, and whether a name was taken
\* before it.
C3_Base == IF op'.text = "" THEN "Player_" \o ToString(op'.clientId) ELSE op'.text

C3_Taken(n) == n \in DOMAIN m_nicks \/ n = ServerNick

\* C3: over Connect calls with distinct ids, each Connect(id, n) returns the
\* base name (n, or Player_<id> for an empty n) followed by the smallest number
\* k >= 0 of '_' such that the result is neither an indexed nickname nor
\* "server"; after the call no two sessions share a nickname and none is
\* "server".
C3_ConnectSmallestSuffix ==
  [][op'.name = "connectClient" =>
       /\ ~exc'
       /\ \E k \in 0..(Cardinality(DOMAIN m_nicks) + 1) :
            /\ ret'.nick = Suffixed(C3_Base, k)
            /\ ~C3_Taken(Suffixed(C3_Base, k))
            /\ \A j \in 0..(k - 1) : C3_Taken(Suffixed(C3_Base, j))
       /\ m_clients'[op'.clientId].nick = ret'.nick
       /\ C1_NicknamesUnique']_vars

\* A connect whose base name needed two suffix characters.
C3_Witness ==
  /\ op.name = "connectClient"
  /\ ~exc
  /\ op.text # ""
  /\ ret.nick = op.text \o "__"

\* C4: "/nick N" sent by connected X leaves X named N if no other session
\* holds N and otherwise a suffixed variant of N no other session holds;
\* exactly one CommandResult message is appended to X's queue, no other queue
\* changes and nothing is fanned out.
C4_NickCommand ==
  [][op'.name \in {"broadcast", "whisper"} /\ op'.text = "/nick a" =>
       LET X == op'.clientId
           others == Connected \ {X}
       IN /\ ~exc'
          /\ DOMAIN m_clients' = DOMAIN m_clients
          /\ \A o \in others : m_clients'[o] = m_clients[o]
          /\ IF \A o \in others : NickOf(o) # "a"
             THEN m_clients'[X].nick = "a"
             ELSE /\ \E k \in 1..(Cardinality(Connected) + 1) :
                       m_clients'[X].nick = Suffixed("a", k)
                  /\ \A o \in others : NickOf(o) # m_clients'[X].nick
          /\ Len(m_clients'[X].pendingMessages) = Len(QueueOf(X)) + 1
          /\ SubSeq(m_clients'[X].pendingMessages, 1, Len(QueueOf(X))) = QueueOf(X)
          /\ m_clients'[X].pendingMessages[Len(QueueOf(X)) + 1].context.mode = "CommandResult"]_vars

\* C5: Disconnect of an id that is not connected returns an empty result
\* without raising an error and changes nothing.
C5_DisconnectTolerated ==
  [][op'.name = "disconnectClient" /\ op'.clientId \notin Connected =>
       /\ ~exc'
       /\ ret'.messages = <<>>
       /\ UNCHANGED <<m_clients, m_nicks, m_channels, m_commandHandler>>]_vars

\* C6: DrainQueue of a connected id returns the session's pending messages
\* and leaves its queue empty, so that a repeated drain returns the empty
\* sequence; of an id that is not connected it returns the empty sequence
\* without error; either way nothing else changes.
C6_Drain ==
  [][op'.name = "pullPendingMessages" =>
       LET id == op'.clientId
       IN /\ ~exc'
          /\ UNCHANGED <<m_nicks, m_channels, m_commandHandler>>
          /\ DOMAIN m_clients' = DOMAIN m_clients
          /\ \A c \in Connected \ {id} : m_clients'[c] = m_clients[c]
          /\ IF id \in Connected
             THEN /\ ret'.messages = QueueOf(id)
                  /\ m_clients'[id] = [m_clients[id] EXCEPT !.pendingMessages = <<>>]
             ELSE ret'.messages = <<>>
          /\ (op.name = "pullPendingMessages" /\ op.clientId = id) => ret'.messages = <<>>]_vars

\* A drain of an id that is not connected while another session has
\* messages waiting.
C6_Witness ==
  /\ op.name = "pullPendingMessages"
  /\ ~exc
  /\ op.clientId \notin Connected
  /\ \E c \in Connected : QueueOf(c) # <<>>

\* C7: with Join invoked for connected ids only, every member of every
\* channel is a connected session, also across a disconnect and reconnect.
C7_MembersConnected ==
  \A c \in DOMAIN m_channels : m_channels[c] \subseteq Connected

\* A session connects while one channel has lost its members and another
\* has kept one.
C7_Witness ==
  /\ op.name = "connectClient"
  /\ \E c \in DOMAIN m_channels : m_channels[c] = {}
  /\ \E c \in DOMAIN m_channels : m_channels[c] # {}

\* C8: after Disconnect(id) of a connected id, id is in no channel, the active
\* channels are exactly those in which another member remains, and every
\* other id's membership of every channel is as before.
C8_DisconnectLeavesChannels ==
  [][op'.name = "disconnectClient" /\ op'.clientId \in Connected =>
       LET id == op'.clientId
           after == [channels |-> m_channels']
       IN /\ ~exc'
          /\ clientChannels(after, id) = {}
          /\ activeChannels(after)
               = {c \in DOMAIN m_channels : \E o \in m_channels[c] : o # id}
          /\ \A c \in DOMAIN m_channels \cup DOMAIN m_channels' :
               \A o \in ClientIds \ {id} :
                 (c \in DOMAIN m_channels' /\ o \in m_channels'[c])
                   <=> (c \in DOMAIN m_channels /\ o \in m_channels[c])]_vars

\* A disconnect after which one channel is left empty and another still has
\* a member.
C8_Witness ==
  /\ op.name = "disconnectClient"
  /\ ~exc
  /\ \E c \in DOMAIN m_channels : m_channels[c] = {}
  /\ \E c \in DOMAIN m_channels : m_channels[c] # {}

\* C9: Broadcast(X, text) with text not starting with '/' appends one
\* Broadcast message with that text, source X and X's nickname to the queue
\* of every connected session, X's included, and changes nothing else.
C9_Broadcast ==
  [][op'.name = "broadcast" /\ SubSeq(op'.text, 1, 1) # "/" =>
       LET X == op'.clientId
           copy == [context |-> [mode |-> "Broadcast", channelName |-> ""],
                    fromConnection |-> X, fromNick |-> NickOf(X), text |-> op'.text]
       IN /\ ~exc'
          /\ UNCHANGED <<m_nicks, m_channels, m_commandHandler>>
          /\ DOMAIN m_clients' = DOMAIN m_clients
          /\ \A c \in Connected :
               m_clients'[c] = [m_clients[c] EXCEPT !.pendingMessages = Append(@, copy)]]_vars

\* A broadcast that reached two sessions, the sender one of them.
C9_Witness ==
  /\ op.name = "broadcast"
  /\ op.text = "hi"
  /\ Cardinality(Connected) = 2
  /\ \A c \in Connected :
       /\ QueueOf(c) # <<>>
       /\ QueueOf(c)[Len(QueueOf(c))].fromConnection = op.clientId

\* Text the command interpreter does not consume, and the text it is
\* delivered with.
PlainText(text) == SubSeq(text, 1, 1) # "/" \/ SubSeq(text, 1, 2) = "//"

DeliveredText(text) ==
  IF SubSeq(text, 1, 2) = "//" THEN SubSeq(text, 2, Len(text)) ELSE text

\* C10: ChannelMessage(X, mode, c, text) with non-command text appends one
\* copy to the queue of every member of c and none to a non-member's queue,
\* whether or not X (a session or the server) is a member.
C10_ChannelMessage ==
  [][op'.name \in {"message", "adminMessage"} /\ PlainText(op'.text) =>
       LET X == op'.clientId
           members == ChannelSet(m_channels, op'.channelName)
           copy == [context |-> [mode |-> op'.mode, channelName |-> op'.channelName],
                    fromConnection |-> X,
                    fromNick |-> IF X = ServerConnectionId THEN ServerNick ELSE NickOf(X),
                    text |-> DeliveredText(op'.text)]
       IN /\ ~exc'
          /\ DOMAIN m_clients' = DOMAIN m_clients
          /\ \A c \in Connected :
               m_clients'[c] =
                 IF c \in members
                 THEN [m_clients[c] EXCEPT !.pendingMessages = Append(@, copy)]
                 ELSE m_clients[c]]_vars

\* A session that is not a member sends to a channel that has a member.
C10_Witness ==
  /\ op.name = "message"
  /\ ~exc
  /\ op.clientId \notin ChannelSet(m_channels, op.channelName)
  /\ \E c \in ChannelSet(m_channels, op.channelName) :
       /\ QueueOf(c) # <<>>
       /\ QueueOf(c)[Len(QueueOf(c))].fromConnection = op.clientId

\* The whisper copy X's text travels as.
WhisperCopy(X, text) ==
  [context |-> [mode |-> "Whisper", channelName |-> ""],
   fromConnection |-> X,
   fromNick |-> IF X = ServerConnectionId THEN ServerNick ELSE NickOf(X),
   text |-> text]

\* The step has whispered text from X to Y: one copy behind Y's queue, one
\* behind X's when X is a session other than Y, no other queue touched.  For
\* X = Y the claim counts the copy Y gets as the target only.
Whispered(X, Y, text) ==
  LET copy == WhisperCopy(X, text)
  IN /\ ~exc'
     /\ DOMAIN m_clients' = DOMAIN m_clients
     /\ \A c \in Connected :
          IF c = Y /\ c = X
          THEN /\ Len(m_clients'[c].pendingMessages) > Len(QueueOf(c))
               /\ SubSeq(m_clients'[c].pendingMessages, 1, Len(QueueOf(c)) + 1)
                    = Append(QueueOf(c), copy)
               /\ m_clients'[c].nick = NickOf(c)
          ELSE IF c = Y \/ c = X
          THEN m_clients'[c] = [m_clients[c] EXCEPT !.pendingMessages = Append(@, copy)]
          ELSE m_clients'[c] = m_clients[c]

\* C11: a whisper from X to connected Y with non-command text, sent with
\* Whisper or with the command "/w <nick of Y> <text>", appends one Whisper
\* copy to Y's queue, one to X's queue when X is a session other than Y, none
\* to a sender queue when X is the server, and changes no third queue.
C11_Whisper ==
  [][/\ op'.name \in {"whisper", "adminWhisper"} /\ op'.text = "hi"
        => Whispered(op'.clientId, op'.target, "hi")
     /\ op'.name \in {"broadcast", "adminBroadcast"} /\ op'.text = "/w a hi"
        => \A Y \in Connected : NickOf(Y) = "a" => Whispered(op'.clientId, Y, "hi")]_vars

\* The target the w command of the text names: the first word, or nothing
\* when the line is empty or opens a quote that is never closed.
C12_Target(text) == IF text = "/w zed hi" THEN "zed" ELSE ""

\* The step has answered X with "No such nick" and changed nothing else.
NoSuchNick(X, target) ==
  /\ ~exc'
  /\ UNCHANGED <<m_nicks, m_channels, m_commandHandler>>
  /\ DOMAIN m_clients' = DOMAIN m_clients
  /\ \A c \in Connected :
       m_clients'[c] =
         IF c = X
         THEN [m_clients[c] EXCEPT !.pendingMessages =
                 Append(@, [context |-> [mode |-> "CommandResult", channelName |-> ""],
                            fromConnection |-> ServerConnectionId,
                            fromNick |-> ServerNick,
                            text |-> "No such nick " \o target])]
         ELSE m_clients[c]

Copies(copy, n) == [i \in 1..n |-> copy]

\* How many copies of the text of the step the fan-out of its addressing mode
\* owes session c.
C13_Owed(c) ==
  IF op'.name \in {"broadcast", "adminBroadcast"} THEN 1
  ELSE IF op'.name \in {"message", "adminMessage"}
  THEN IF c \in ChannelSet(m_channels, op'.channelName) THEN 1 ELSE 0
  ELSE (IF c = op'.target THEN 1 ELSE 0) + (IF c = op'.clientId THEN 1 ELSE 0)

C13_Context ==
  IF op'.name \in {"broadcast", "adminBroadcast"}
  THEN [mode |-> "Broadcast", channelName |-> ""]
  ELSE IF op'.name \in {"message", "adminMessage"}
  THEN [mode |-> op'.mode, channelName |-> op'.channelName]
  ELSE [mode |-> "Whisper", channelName |-> ""]

\* C13: a text beginning with "//" is never taken as a command, in any
\* addressing mode: one leading "/" is stripped and the rest is fanned out as
\* plain text is, with no rename, no whisper of a w command, no handler call
\* and no CommandResult.
C13_Escape ==
  [][/\ op'.name \in {"broadcast", "message", "whisper",
                      "adminBroadcast", "adminMessage", "adminWhisper"}
     /\ SubSeq(op'.text, 1, 2) = "//"
     => LET X == op'.clientId
            copy == [context |-> C13_Context,
                     fromConnection |-> X,
                     fromNick |-> IF X = ServerConnectionId THEN ServerNick ELSE NickOf(X),
                     text |-> SubSeq(op'.text, 2, Len(op'.text))]
        IN /\ ~exc'
           /\ calls' = <<>>
           /\ UNCHANGED <<m_nicks, m_commandHandler>>
           /\ DOMAIN m_clients' = DOMAIN m_clients
           /\ \A c \in Connected :
                m_clients'[c] = [m_clients[c] EXCEPT !.pendingMessages =
                                   @ \o Copies(copy, C13_Owed(c))]]_vars

\* An escaped nick command was broadcast while a handler is installed, and
\* reached a queue as text.
C13_Witness ==
  /\ op.name = "broadcast" /\ op.text = "//nick b" /\ ~exc
  /\ m_commandHandler # "none"
  /\ \E c \in Connected :
       /\ QueueOf(c) # <<>>
       /\ QueueOf(c)[Len(QueueOf(c))].text = "/nick b"
       /\ QueueOf(c)[Len(QueueOf(c))].context.mode = "Broadcast"

\* C14: Connect(id, n) appends one Broadcast notice from the server, naming
\* the assigned nickname as connected, to the queue of every session connected
\* before, and the new session's queue is empty right after.
C14_ConnectNotice ==
  [][op'.name = "connectClient" =>
       LET notice == [context |-> [mode |-> "Broadcast", channelName |-> ""],
                      fromConnection |-> ServerConnectionId,
                      fromNick |-> ServerNick,
                      text |-> "Player '" \o ret'.nick \o "' connected"]
       IN /\ ~exc'
          /\ DOMAIN m_clients' = DOMAIN m_clients \cup {op'.clientId}
          /\ op'.clientId \notin Connected
          /\ \A c \in Connected :
               m_clients'[c] = [m_clients[c] EXCEPT !.pendingMessages = Append(@, notice)]
          /\ m_clients'[op'.clientId].pendingMessages = <<>>]_vars

\* A session has connected while another was connected, which holds the
\* notice; the new one holds nothing.
C14_Witness ==
  /\ op.name = "connectClient" /\ ~exc
  /\ QueueOf(op.clientId) = <<>>
  /\ \E c \in Connected \ {op.clientId} :
       /\ QueueOf(c) # <<>>
       /\ QueueOf(c)[Len(QueueOf(c))].text = "Player '" \o ret.nick \o "' connected"

\* The step is the same call, on the same session and channel, as the one
\* before it.
C15_Repeated ==
  /\ op.name = op'.name
  /\ op.clientId = op'.clientId
  /\ op.channelName = op'.channelName

\* C15: Join(id, c) reports whether id was no member and makes it one, so a
\* second Join(id, c) right after reports false and leaves the member set as
\* it is; Leave(id, c) reports whether id was a member and removes it, a
\* second Leave(id, c) reports false and changes nothing; neither changes the
\* membership of another id or another channel.
C15_JoinLeaveIdempotent ==
  [][op'.name \in {"joinChannel", "leaveChannel"} =>
       LET id == op'.clientId
           members == ChannelSet(m_channels, op'.channelName)
           members1 == ChannelSet(m_channels', op'.channelName)
       IN /\ ~exc'
          /\ \A d \in ChannelNames \ {op'.channelName} :
               ChannelSet(m_channels', d) = ChannelSet(m_channels, d)
          /\ members1 \ {id} = members \ {id}
          /\ op'.name = "joinChannel" => (ret'.changed <=> id \notin members) /\ id \in members1
          /\ op'.name = "leaveChannel" => (ret'.changed <=> id \in members) /\ id \notin members1
          /\ C15_Repeated => ~ret'.changed /\ members1 = members]_vars

\* A leave that found the session no member of a channel another session is in.
C15_Witness ==
  /\ op.name = "leaveChannel" /\ ~exc
  /\ ~ret.changed
  /\ ChannelSet(m_channels, op.channelName) \ {op.clientId} # {}

\* The command name and the argument line of a text of HandlerTexts.
C16_Command(text) == IF text = "/foo x" THEN "foo" ELSE "bar"

C16_CommandLine(text) == IF text = "/foo x" THEN "x" ELSE ""

\* C16: a command other than nick and w sent by connected X goes to the
\* handler installed last, and to it only, whose response is used; with no
\* handler installed, never set or cleared, the response is "No such command".
\* A non-empty response is appended as one CommandResult to X's queue only, an
\* empty one appends nothing; the text is never fanned out.
C16_OtherCommand ==
  [][op'.name \in {"broadcast", "whisper"} /\ op'.text \in HandlerTexts =>
       LET X == op'.clientId
           command == C16_Command(op'.text)
           commandLine == C16_CommandLine(op'.text)
           response == IF m_commandHandler = "none"
                       THEN "No such command " \o command
                       ELSE HandlerResponse(m_commandHandler, X, command, commandLine)
           result == [context |-> [mode |-> "CommandResult", channelName |-> ""],
                      fromConnection |-> ServerConnectionId,
                      fromNick |-> ServerNick,
                      text |-> response]
       IN /\ ~exc'
          /\ calls' = IF m_commandHandler = "none" THEN <<>>
                      ELSE <<[handler |-> m_commandHandler, fromConnection |-> X,
                              command |-> command, commandLine |-> commandLine]>>
          /\ UNCHANGED <<m_nicks, m_channels, m_commandHandler>>
          /\ DOMAIN m_clients' = DOMAIN m_clients
          /\ \A c \in Connected :
               m_clients'[c] =
                 IF c = X /\ response # ""
                 THEN [m_clients[c] EXCEPT !.pendingMessages = Append(@, result)]
                 ELSE m_clients[c]]_vars

\* A command went to the handler that answers with the empty string while the
\* issuer held a message: no CommandResult was queued behind it.
C16_Witness ==
  /\ op.name = "broadcast" /\ op.text = "/foo x" /\ ~exc
  /\ Len(calls) = 1 /\ calls[1].handler = "silent"
  /\ QueueOf(op.clientId) # <<>>
  /\ QueueOf(op.clientId)[Len(QueueOf(op.clientId))].context.mode # "CommandResult"

\* C17: messages are conserved, in order.  A DrainQueue of a connected id
\* returns all of its queue, in its order, and leaves it empty; the Disconnect
\* that removes a session returns all of its queue; every other step changes a
\* queue only by appending behind it, and returns no messages.  So every
\* message appended is returned once, in the order of enqueueing.
C17_Conservation ==
  [][/\ \A c \in Connected :
          LET q == QueueOf(c)
          IN IF op'.name = "pullPendingMessages" /\ op'.clientId = c
             THEN /\ ~exc'
                  /\ ret'.messages = q
                  /\ c \in DOMAIN m_clients'
                  /\ m_clients'[c].pendingMessages = <<>>
             ELSE IF c \in DOMAIN m_clients'
             THEN LET q1 == m_clients'[c].pendingMessages
                  IN Len(q1) >= Len(q) /\ SubSeq(q1, 1, Len(q)) = q
             ELSE /\ op'.name = "disconnectClient" /\ op'.clientId = c
                  /\ ~exc'
                  /\ ret'.messages = q
     /\ ret'.messages # <<>> =>
          op'.name \in {"pullPendingMessages", "disconnectClient"} /\ op'.clientId \in Connected]_vars

\* A Disconnect has returned two different messages, a notice before a
\* broadcast text.
C17_Witness ==
  /\ op.name = "disconnectClient" /\ ~exc
  /\ Len(ret.messages) = 2
  /\ ret.messages[1].fromConnection = ServerConnectionId
  /\ ret.messages[2].text = "hi"

\* C18: the source nickname of a message is the sender's at the time of
\* sending.  A Rename, by the call or by the nick command, and a Disconnect
\* leave every message that waits in a queue that remains as it is, source
\* nickname included; a Rename by the call changes no queue at all.
C18_StampedAtSend ==
  [][\/ op'.name \in {"renick", "disconnectClient"}
     \/ op'.name \in {"broadcast", "whisper"} /\ op'.text = "/nick a"
     => \A c \in Connected \cap DOMAIN m_clients' :
          LET q == QueueOf(c)
              q1 == m_clients'[c].pendingMessages
          IN /\ Len(q1) >= Len(q)
             /\ \A i \in 1..Len(q) : q1[i] = q[i]
             /\ op'.name = "renick" => q1 = q]_vars

\* A session was renamed while a message it sent under its former nickname
\* waits in a queue.
C18_Witness ==
  /\ op.name = "renick" /\ ~exc
  /\ \E c \in Connected :
       \E i \in 1..Len(QueueOf(c)) :
         /\ QueueOf(c)[i].fromConnection = op.clientId
         /\ QueueOf(c)[i].fromNick # NickOf(op.clientId)

\* C19: an AdminBroadcast, AdminChannelMessage or AdminWhisper to a connected
\* target whose text is taken as a command, such as an unknown command with no
\* handler installed or a w command with an unknown target, raises no error
\* and leaves every session, the index and the channels as they are.
C19_AdminCommand ==
  [][op'.name \in {"adminBroadcast", "adminMessage", "adminWhisper"}
       /\ op'.text \in AdminTexts
       => /\ ~exc'
          /\ m_nicks' = m_nicks
          /\ m_channels' = m_channels
          /\ DOMAIN m_clients' = DOMAIN m_clients
          /\ \A c \in Connected : m_clients'[c].nick = NickOf(c)]_vars

\* The lockers thread t holds: the methods on its stack that have one.
Lockers(t) == Cardinality({i \in 1..Len(threads[t].stack) : HasLocker(threads[t].stack[i])})

\* Only the owner of the mutex is inside a method, so one thread at most.
C20_OneInside == \A t \in ThreadIds : Inside(t) => m_mutex.owner = t

\* The mutex is held as often as its owner has lockers open, and by nobody
\* who has returned from its public method.
C20_Released ==
  /\ m_mutex.owner = 0 <=> m_mutex.count = 0
  /\ \A t \in ThreadIds :
       /\ m_mutex.owner = t => m_mutex.count = Lockers(t)
       /\ ~Inside(t) => m_mutex.owner # t

\* A thread inside a method never waits at a locker.
C20_NoSelfDeadlock ==
  \A t \in ThreadIds :
    Inside(t) /\ threads[t].todo # <<>> /\ threads[t].todo[1].enter => CanLock(t)

\* A step that changes the members is the return of a thread from its public
\* method, and leaves what the whole method makes of the members before it.
C20_WholeOperation ==
  (<<m_clients, m_nicks, m_channels, m_commandHandler>>' #
     <<m_clients, m_nicks, m_channels, m_commandHandler>>)
  => \E t \in ThreadIds :
       /\ Inside(t) /\ threads'[t] = IdleThread
       /\ LET done == MethodResult(Heap, threads[t].o)
          IN Effect(done.h, threads[t].o, done.r)

\* C20: with several threads calling public operations, one thread at most
\* is inside the shared state; every public operation, nested lockers
\* included, has released the mutex when it returns; no thread waits for a
\* mutex it holds; and the members change only as whole operations, taken one
\* after another in the order of their returns, change them.
C20_Serialized ==
  [][C20_OneInside' /\ C20_Released' /\ C20_NoSelfDeadlock' /\ C20_WholeOperation]_vars

\* A thread is three lockers deep, in the whisper of a w command, while the
\* other thread has called a method and waits for the mutex.
C20_Witness ==
  \E t, u \in ThreadIds :
    /\ threads[t].stack = <<"broadcast", "handleCommand", "whisper", "connectionNick">>
    /\ m_mutex = [owner |-> t, count |-> 3]
    /\ u # t /\ threads[u].o.name = "disconnectClient" /\ ~Inside(u)

====
